---- MODULE Spec2Model ----
(***************************************************************************)
(* Model of the technocracy repository:                                    *)
(*   simple_sprite_generator.py   layer resolver, compositor, CLI driver   *)
(*   generate_1000_characters.py  batch driver                             *)
(*   generateResponses.py         prompting of the language model and the  *)
(*                                yes/no classification of its reply       *)
(*                                                                         *)
(* A path or a file name is the sequence of the pieces its f-string puts   *)
(* together; Python's None is the empty sequence for paths, images and     *)
(* lists, and the string "None" for the optional string arguments.         *)
(***************************************************************************)
EXTENDS Integers, Sequences, FiniteSets, TLC

VARIABLES
    pc,               \* position of the running script
    args,             \* arguments of the get_layers_for_animation call
    ret,              \* (layers, leg_type, hair_style) it returned
    reply,            \* getAnswer: the text being classified
    answer,           \* getAnswer: its return value
    question,         \* promptCharacters: the question argument
    prompt_files,     \* content of the three files under prompts/
    char_id,          \* promptCharacters: the loop variable i
    description,      \* considerQuestion: character_description
    sent,             \* considerQuestion: its calls of query_gpt, each with
                      \* the prompt sent and the reply received
    count_yes,        \* promptCharacters: count_yes
    count_no,         \* promptCharacters: count_no
    short_answer,     \* writeOut: the text written to short-answer.txt
    layers,           \* generate_sprite: the layers argument
    output_filename,  \* generate_sprite: the output_filename argument
    output_dir,       \* generate_sprite: the output_dir argument
    files,            \* what the asset tree holds for each entry of layers
    i,                \* generate_sprite: number of layers already visited
    composite_image,  \* generate_sprite: the accumulating composite
    result,           \* generate_sprite: returned path, <<>> for None
    writes,           \* files written so far, oldest first
    credits,          \* generate_sprite: the manifest this call wrote
    saved,            \* generate_sprite: the image this call saved
    cli,              \* sprite tool: the parsed command line
    a,                \* drivers: index in ANIMATIONS of the current animation
    generated_files,  \* sprite tool main: generated_files
    leg_type_used,    \* sprite tool main: leg_type_used
    hair_style_used,  \* both drivers: hair_style_used
    exit_code,        \* value returned by main, -1 before it returns
    cid,              \* batch: the character id i of main's loop
    attrs,            \* batch: the attributes drawn by generate_character
    char_success,     \* batch: generate_character's success_count
    success_count,    \* batch: main's success_count
    failed_chars,     \* batch: main's failed_chars
    calls             \* batch: ids generate_character was called with, in order

vars == <<pc, args, ret, reply, answer, question, prompt_files, char_id,
          description, sent, count_yes, count_no, short_answer, layers, output_filename, output_dir,
          files, i, composite_image, result, writes, credits, saved, cli, a,
          generated_files, leg_type_used, hair_style_used, exit_code, cid,
          attrs, char_success, success_count, failed_chars, calls>>

None == "None"

promptVars == <<question, prompt_files, char_id, description, sent, count_yes,
                count_no, short_answer>>
answerVars == <<reply, answer, promptVars>>
callVars == <<args, ret>>
frameVars == <<layers, output_filename, output_dir, files>>
diskVars == <<writes, credits, saved>>
mainVars == <<cli, generated_files, leg_type_used>>
batchVars == <<cid, attrs, char_success, success_count, failed_chars, calls>>
loopVars == <<a, hair_style_used, exit_code>>
driverVars == <<mainVars, batchVars, loopVars>>

(***************************************************************************)
(* Bounds of the model.                                                    *)
(***************************************************************************)
MaxLayers == 3      \* longest layer list handed directly to generate_sprite
MaxReplyLen == 33   \* longest reply classified
MaxChars == 2       \* characters of a batch run (1000 in the source)
MaxPrompted == 2    \* characters prompted (num, 10 in the source)

(***************************************************************************)
(* simple_sprite_generator.py: constants.  The style lists keep the shape  *)
(* of the source lists (a repeated entry, a style shared by both genders)  *)
(* on fewer entries.                                                       *)
(***************************************************************************)
ANIMATIONS == <<"idle", "walk", "sit">>

FEMALE_HAIR_STYLES == <<"long", "bob">>

MALE_HAIR_STYLES == <<"natural", "natural", "bob">>

\* the animations a skirt, and a female pants sheet, exist for
ActionAnimations == {"walk", "shoot", "slash", "spellcast", "thrust", "hurt"}

Genders == {"male", "female"}

LegTypes == {"pants", "skirt", "leggings"}

\* animation names the resolver is called with: the lists of the source and
\* two names that are in none of them
AnimationNames == ActionAnimations \cup {"idle", "sit", "run", "jump"}

SkinColors == {"light", "amber"}

HairColors == {"dark_brown"}

ShirtColors == {"white"}

LegColors == {"blue", "black"}

ShoeColors == {"black"}

HairStylesOf(gender) ==
    IF gender = "female" THEN FEMALE_HAIR_STYLES ELSE MALE_HAIR_STYLES

Range(s) == {s[k] : k \in 1..Len(s)}

(***************************************************************************)
(* get_layers_for_animation.  rnd_leg and rnd_hair are the two draws of    *)
(* random.choice; rnd_hair is an index of the style list of the gender.    *)
(***************************************************************************)
\* a resolver that forgets to force pants on a male
ChooseLegType_NotForced(gender, leg_type, rnd_leg) ==
    IF leg_type = None THEN rnd_leg ELSE leg_type

ChooseLegType(gender, leg_type, rnd_leg) ==
    IF gender = "female" /\ leg_type = None THEN rnd_leg
    ELSE IF gender = "male" THEN "pants"
    ELSE leg_type

ChooseHairStyle(gender, hair_style, rnd_hair) ==
    IF hair_style = None THEN HairStylesOf(gender)[rnd_hair] ELSE hair_style

\* a resolver that takes the thin body type for everybody
LegBodyType_AlwaysThin(gender) == "thin"

LegBodyType(gender) == IF gender = "female" THEN "thin" ELSE gender

\* a resolver without the leggings fallback of a skirt for idle and sit
LegPath_NoFallback(animation, gender, leg_color, leg_type) ==
    IF leg_type = "skirt" THEN
        IF animation \in {"walk", "shoot", "slash", "spellcast", "thrust", "hurt"}
        THEN <<"legs", "skirts", "plain", gender, animation, leg_color, ".png">>
        ELSE <<>>
    ELSE IF leg_type = "leggings" THEN
        <<"legs", "leggings", (IF gender = "female" THEN "thin" ELSE gender),
          animation, leg_color, ".png">>
    ELSE
        IF animation \in {"walk", "shoot", "slash", "spellcast", "thrust", "hurt"}
           /\ gender = "female"
        THEN <<"legs", "pants", gender, animation, leg_color, ".png">>
        ELSE <<"legs", "pants", (IF gender = "female" THEN "thin" ELSE gender),
               animation, leg_color, ".png">>

LegPath(animation, gender, leg_color, leg_type) ==
    IF leg_type = "skirt" THEN
        IF animation \in ActionAnimations
        THEN <<"legs", "skirts", "plain", gender, animation, leg_color, ".png">>
        ELSE IF animation \in {"idle", "sit"}
        THEN <<"legs", "leggings", "thin", animation, leg_color, ".png">>
        ELSE <<>>
    ELSE IF leg_type = "leggings" THEN
        <<"legs", "leggings", LegBodyType(gender), animation, leg_color, ".png">>
    ELSE
        IF animation \in ActionAnimations /\ gender = "female"
        THEN <<"legs", "pants", gender, animation, leg_color, ".png">>
        ELSE <<"legs", "pants", LegBodyType(gender), animation, leg_color, ".png">>

ShoePath(animation, gender, shoe_color) ==
    IF gender = "female"
    THEN <<"feet", "shoes", "revised", "thin", animation, shoe_color, ".png">>
    ELSE <<"feet", "shoes", "basic", "male", animation, shoe_color, ".png">>

BodyPath(animation, gender, skin_color) ==
    <<"body", "bodies", gender, animation, skin_color, ".png">>

HeadPath(animation, gender, skin_color) ==
    <<"head", "heads", "human", gender, animation, skin_color, ".png">>

NosePath(animation, skin_color) ==
    <<"head", "nose", "big", "adult", animation, skin_color, ".png">>

EyesPath(animation) ==
    <<"eyes", "human", "adult", "default", animation, "brown", ".png">>

HairPath(animation, hair_style, hair_color) ==
    <<"hair", hair_style, "adult", animation, hair_color, ".png">>

ShirtPath(animation, gender, shirt_color) ==
    <<"torso", "clothes", "longsleeve", "longsleeve", gender, animation,
      shirt_color, ".png">>

\* a resolver that appends the shoes before the legwear
BuildLayers_ShoesFirst(base, leg_path, shoe_path) ==
    Append(base, shoe_path) \o (IF leg_path # <<>> THEN <<leg_path>> ELSE <<>>)

BuildLayers(base, leg_path, shoe_path) ==
    (IF leg_path # <<>> THEN Append(base, leg_path) ELSE base) \o <<shoe_path>>

get_layers_for_animation(g, rnd_leg, rnd_hair) ==
    LET lt == ChooseLegType(g.gender, g.leg_type, rnd_leg)
        hs == ChooseHairStyle(g.gender, g.hair_style, rnd_hair)
        base == << BodyPath(g.animation, g.gender, g.skin_color),
                   HeadPath(g.animation, g.gender, g.skin_color),
                   NosePath(g.animation, g.skin_color),
                   EyesPath(g.animation),
                   HairPath(g.animation, hs, g.hair_color),
                   ShirtPath(g.animation, g.gender, g.shirt_color) >>
    IN  [ layers |-> BuildLayers(base,
                                 LegPath(g.animation, g.gender, g.leg_color, lt),
                                 ShoePath(g.animation, g.gender, g.shoe_color)),
          leg_type |-> lt,
          hair_style |-> hs ]

\* the arguments a call of the resolver is given
ResolverArgs ==
    [ animation : AnimationNames, gender : Genders, skin_color : SkinColors,
      hair_color : HairColors, shirt_color : ShirtColors,
      leg_color : LegColors, shoe_color : ShoeColors,
      leg_type : LegTypes \cup {None},
      hair_style : {None, "natural", "long"} ]

NoArgs == [ animation |-> None, gender |-> None, skin_color |-> None,
            hair_color |-> None, shirt_color |-> None, leg_color |-> None,
            shoe_color |-> None, leg_type |-> None, hair_style |-> None ]

NoRet == [ layers |-> <<>>, leg_type |-> None, hair_style |-> None ]

(***************************************************************************)
(* generateResponses.py: getAnswer.  A text is the sequence of its         *)
(* characters.                                                             *)
(***************************************************************************)
Max(x, y) == IF x >= y THEN x ELSE y

Min(x, y) == IF x <= y THEN x ELSE y

\* Python's s[start:stop] for a start and a stop that may be negative
SliceIndex(s, k) == IF k < 0 THEN Max(Len(s) + k, 0) ELSE Min(k, Len(s))

PySlice(s, start, stop) == SubSeq(s, SliceIndex(s, start) + 1, SliceIndex(s, stop))

\* Python's  word in s
Contains(s, word) ==
    \E k \in 1..(Len(s) - Len(word) + 1) : SubSeq(s, k, k + Len(word) - 1) = word

getAnswer(prompt) ==
    LET short == PySlice(prompt, -30, -1)
    IN  Contains(short, <<"y", "e", "s">>) \/ Contains(short, <<"Y", "e", "s">>)

Filler(n) == [k \in 1..n |-> "x"]

Words == { <<>>, <<"y", "e", "s">>, <<"Y", "e", "s">>, <<"N", "o">>, <<"y", "e">> }

\* the replies classified: one word somewhere in a text of other characters
Replies ==
    { Filler(n) \o w \o Filler(m) :
        <<n, w, m>> \in { t \in (0..MaxReplyLen) \X Words \X (0..MaxReplyLen) :
                            t[1] + Len(t[2]) + t[3] <= MaxReplyLen } }

(***************************************************************************)
(* generate_sprite.  An image is the sequence of its pixels, and one pixel *)
(* stands for all of them since compositing works pixel by pixel: 0 is a   *)
(* transparent pixel, any other value an opaque colour.  All images have   *)
(* the same size.                                                          *)
(***************************************************************************)
Pixels == {0, 1, 2}

Images == { <<p>> : p \in Pixels }

\* Image.alpha_composite(dst, src): src drawn over dst
AlphaComposite(dst, src) ==
    [k \in 1..Len(dst) |-> IF src[k] # 0 THEN src[k] ELSE dst[k]]

\* what opening a layer file gives: no such file, a file that does not
\* decode, or an image
FileOutcomes ==
    { [status |-> "absent", img |-> <<>>], [status |-> "corrupt", img |-> <<>>] }
        \cup { [status |-> "ok", img |-> im] : im \in Images }

\* a loop that starts the composite afresh after a file it did not find
LoadStep_RestartOnSkip(composite, f) ==
    IF f.status = "absent" THEN <<>>
    ELSE IF f.status = "corrupt" THEN composite
    ELSE IF composite = <<>> THEN f.img
    ELSE [k \in 1..Len(composite) |-> IF f.img[k] # 0 THEN f.img[k] ELSE composite[k]]

\* a loop that takes a file that does not decode for a blank image
LoadStep_CorruptLoads(composite, f) ==
    IF f.status = "absent" THEN composite
    ELSE IF f.status = "corrupt" THEN (IF composite = <<>> THEN <<0>> ELSE composite)
    ELSE IF composite = <<>> THEN f.img
    ELSE [k \in 1..Len(composite) |-> IF f.img[k] # 0 THEN f.img[k] ELSE composite[k]]

\* one iteration of the loop over the layers: the composite after it
LoadStep(composite, f) ==
    IF f.status = "absent" THEN composite
    ELSE IF f.status = "corrupt" THEN composite
    ELSE IF composite = <<>> THEN f.img
    ELSE AlphaComposite(composite, f.img)

\* str.replace on a file name, piece by piece
Replace(name, old, new) ==
    LET keep(t) == t # old
    IN  IF new = "" THEN SelectSeq(name, keep)
        ELSE [k \in 1..Len(name) |-> IF name[k] = old THEN new ELSE name[k]]

\* os.path.join(dir, name)
PathJoin(dir, name) == dir \o <<"/">> \o name

OutputPath(dir, name) == PathJoin(dir, name)

CreditsPath(dir, name) == PathJoin(dir, Replace(name, ".png", "_info.json"))

\* a manifest that leaves out the last layer of the list
Credits_LastLayerLost(name, timestamp, lys) ==
    [ sprite_name |-> SelectSeq(name, LAMBDA t : t # ".png"),
      generated |-> timestamp,
      layers |-> SubSeq(lys, 1, Len(lys) - 1) ]

Credits(name, timestamp, lys) ==
    [ sprite_name |-> Replace(name, ".png", ""),
      generated |-> timestamp,
      layers |-> lys ]

NoCredits == [ sprite_name |-> <<>>, generated |-> 0, layers |-> <<>> ]

\* values datetime.now() gives
Timestamps == {1, 2}

\* os.makedirs(output_dir, exist_ok=True), which may raise
SpriteEnter ==
    /\ pc = "sprite_call"
    /\ \/ pc' = "load"
       \/ pc' = "sprite_raised"
    /\ UNCHANGED <<answerVars, callVars, frameVars, i, composite_image, result, diskVars,
                   driverVars>>

\* the loop body for the layer at position i+1, whose file gives f
LoadLayer(f) ==
    /\ pc = "load"
    /\ i < Len(layers)
    /\ composite_image' = LoadStep(composite_image, f)
    /\ i' = i + 1
    /\ UNCHANGED <<pc, answerVars, callVars, frameVars, result, diskVars, driverVars>>

\* no layer was loaded: return None
ReturnNone ==
    /\ pc = "load"
    /\ i = Len(layers)
    /\ composite_image = <<>>
    /\ result' = <<>>
    /\ pc' = "sprite_ret"
    /\ UNCHANGED <<answerVars, callVars, frameVars, i, composite_image, diskVars,
                   driverVars>>

\* composite_image.save(output_path, "PNG"), which may raise
SavePng ==
    /\ pc = "load"
    /\ i = Len(layers)
    /\ composite_image # <<>>
    /\ \/ /\ writes' = Append(writes, OutputPath(output_dir, output_filename))
          /\ saved' = composite_image
          /\ pc' = "credits"
       \/ /\ pc' = "sprite_raised"
          /\ UNCHANGED <<writes, saved>>
    /\ UNCHANGED <<answerVars, callVars, frameVars, i, composite_image, result, credits,
                   driverVars>>

\* the credits file is written, which may raise, and the path is returned
SaveCredits ==
    /\ pc = "credits"
    /\ \/ \E timestamp \in Timestamps :
            /\ credits' = Credits(output_filename, timestamp, layers)
            /\ writes' = Append(writes, CreditsPath(output_dir, output_filename))
            /\ result' = OutputPath(output_dir, output_filename)
            /\ pc' = "sprite_ret"
       \/ /\ pc' = "sprite_raised"
          /\ UNCHANGED <<credits, writes, result>>
    /\ UNCHANGED <<answerVars, callVars, frameVars, i, composite_image, saved,
                   driverVars>>

(***************************************************************************)
(* Values of the variables a script does not use.                          *)
(***************************************************************************)
NoCli == [ gender |-> None, skin |-> None, hair |-> None, shirt |-> None,
           legs |-> None, shoes |-> None, leg_type |-> None, output_dir |-> <<>> ]

NoAttrs == [ gender |-> None, skin_color |-> None, hair_color |-> None,
             shirt_color |-> None, leg_color |-> None, shoe_color |-> None,
             leg_type |-> None ]

NoPromptFiles == [ introduction |-> <<>>, pre |-> <<>>, post |-> <<>> ]

NoPrompt ==
    /\ question = <<>> /\ prompt_files = NoPromptFiles /\ char_id = 0
    /\ description = <<>> /\ sent = <<>> /\ count_yes = 0 /\ count_no = 0
    /\ short_answer = None

NoAnswer == reply = <<>> /\ answer = FALSE /\ NoPrompt

NoCall == args = NoArgs /\ ret = NoRet

NoFrame ==
    /\ layers = <<>> /\ output_filename = <<>> /\ output_dir = <<>>
    /\ files = <<>> /\ i = 0 /\ composite_image = <<>> /\ result = <<>>

EmptyDisk == writes = <<>> /\ credits = NoCredits /\ saved = <<>>

NoMain == cli = NoCli /\ generated_files = <<>> /\ leg_type_used = None

NoBatch ==
    /\ cid = 0 /\ attrs = NoAttrs /\ char_success = 0 /\ success_count = 0
    /\ failed_chars = <<>> /\ calls = <<>>

NoLoop == a = 0 /\ hair_style_used = None /\ exit_code = -1

\* the locals of generate_sprite are gone once its caller has its result
DropSpriteFrame ==
    /\ layers' = <<>> /\ output_filename' = <<>> /\ output_dir' = <<>>
    /\ i' = 0 /\ composite_image' = <<>> /\ result' = <<>>
    /\ credits' = NoCredits /\ saved' = <<>>
    /\ UNCHANGED files

\* the locals of generate_character are gone once main has its result
DropCharFrame ==
    /\ attrs' = NoAttrs /\ char_success' = 0 /\ a' = 0 /\ hair_style_used' = None
    /\ args' = NoArgs /\ ret' = NoRet

(***************************************************************************)
(* One call of get_layers_for_animation on arbitrary arguments.            *)
(***************************************************************************)
InitResolve ==
    /\ pc = "resolve"
    /\ args \in ResolverArgs
    /\ ret = NoRet
    /\ NoAnswer /\ NoFrame /\ EmptyDisk /\ NoMain /\ NoBatch /\ NoLoop

Resolve ==
    /\ pc = "resolve"
    /\ \E rnd_leg \in LegTypes :
        \E rnd_hair \in 1..Len(HairStylesOf(args.gender)) :
            ret' = get_layers_for_animation(args, rnd_leg, rnd_hair)
    /\ pc' = "resolved"
    /\ UNCHANGED <<args, answerVars, frameVars, i, composite_image, result,
                   diskVars, driverVars>>

SpecResolve == InitResolve /\ [][Resolve]_vars

(***************************************************************************)
(* One call of getAnswer on a reply.                                       *)
(***************************************************************************)
InitAnswer ==
    /\ pc = "classify"
    /\ reply \in Replies
    /\ answer = FALSE
    /\ NoPrompt
    /\ NoCall /\ NoFrame /\ EmptyDisk /\ NoMain /\ NoBatch /\ NoLoop

Classify ==
    /\ pc = "classify"
    /\ answer' = getAnswer(reply)
    /\ pc' = "classified"
    /\ UNCHANGED <<reply, promptVars, callVars, frameVars, i, composite_image,
                   result, diskVars, driverVars>>

SpecAnswer == InitAnswer /\ [][Classify]_vars

(***************************************************************************)
(* One call of generate_sprite on an arbitrary layer list, over an asset   *)
(* tree that holds files[k] for the k-th layer.                            *)
(***************************************************************************)
CandidateLayers ==
    << BodyPath("walk", "male", "light"), EyesPath("walk"),
       HairPath("walk", "natural", "dark_brown"),
       ShoePath("walk", "male", "black"), NosePath("walk", "light") >>

\* the lists of at most MaxLayers distinct layers, in the order of the
\* candidates
LayerLists ==
    { SelectSeq(CandidateLayers, LAMBDA p : p \in chosen) :
        chosen \in { c \in SUBSET Range(CandidateLayers) : Cardinality(c) <= MaxLayers } }

InitSprite ==
    /\ pc = "sprite_call"
    /\ layers \in LayerLists
    /\ files \in [1..Len(layers) -> FileOutcomes]
    /\ output_filename \in { <<"generated_character", ".png">>, <<"walk", ".png">> }
    /\ output_dir = <<"generated_sprites">>
    /\ i = 0 /\ composite_image = <<>> /\ result = <<>>
    /\ NoCall /\ NoAnswer /\ EmptyDisk /\ NoMain /\ NoBatch /\ NoLoop

\* the loop body on the file the asset tree holds for its layer
LoadKnown ==
    /\ i < Len(layers)
    /\ LoadLayer(files[i + 1])

RECURSIVE CompositesAfter(_, _)
\* the composites the loop can end with after n more layers, from one of the
\* composites in cs, when the environment decides what each file gives
CompositesAfter(cs, n) ==
    IF n = 0 THEN cs
    ELSE CompositesAfter({LoadStep(c, f) : c \in cs, f \in FileOutcomes}, n - 1)

\* the whole loop over the layers, on files the environment decides as they
\* are opened
LoadAll ==
    /\ pc = "load"
    /\ i = 0
    /\ Len(layers) > 0
    /\ composite_image' \in CompositesAfter({composite_image}, Len(layers))
    /\ i' = Len(layers)
    /\ UNCHANGED <<pc, answerVars, callVars, frameVars, result, diskVars, driverVars>>

NextSprite == SpriteEnter \/ LoadKnown \/ ReturnNone \/ SavePng \/ SaveCredits

SpecSprite == InitSprite /\ [][NextSprite]_vars

(***************************************************************************)
(* simple_sprite_generator.py: main, the sprite tool.  An exception of     *)
(* generate_sprite is not caught: the run ends at "sprite_raised".         *)
(***************************************************************************)
CliArgs ==
    [ gender : Genders, skin : {"light"}, hair : HairColors, shirt : ShirtColors,
      legs : {"blue"}, shoes : ShoeColors, leg_type : LegTypes \cup {None},
      output_dir : {<<"generated_sprites">>} ]

InitMain ==
    /\ pc = "main_loop"
    /\ cli \in CliArgs
    /\ generated_files = <<>>
    /\ leg_type_used = None
    /\ hair_style_used = None
    /\ a = 1
    /\ exit_code = -1
    /\ NoCall /\ NoAnswer /\ NoFrame /\ EmptyDisk /\ NoBatch

\* the arguments main passes to the resolver for the animation at index a
MainCallArgs ==
    [ animation |-> ANIMATIONS[a], gender |-> cli.gender, skin_color |-> cli.skin,
      hair_color |-> cli.hair, shirt_color |-> cli.shirt, leg_color |-> cli.legs,
      shoe_color |-> cli.shoes,
      leg_type |-> IF cli.gender = "female" THEN cli.leg_type ELSE None,
      hair_style |-> hair_style_used ]

MainFilename(gender, animation) == <<"character_", gender, "_", animation, ".png">>

\* top of the loop body: resolve the layers and call generate_sprite
MainResolve ==
    /\ pc = "main_loop"
    /\ a <= Len(ANIMATIONS)
    /\ \E rnd_leg \in LegTypes :
        \E rnd_hair \in 1..Len(HairStylesOf(cli.gender)) :
            LET r == get_layers_for_animation(MainCallArgs, rnd_leg, rnd_hair)
            IN  /\ args' = MainCallArgs
                /\ ret' = r
                /\ leg_type_used' =
                        IF leg_type_used = None THEN r.leg_type ELSE leg_type_used
                /\ hair_style_used' =
                        IF hair_style_used = None THEN r.hair_style ELSE hair_style_used
                /\ layers' = r.layers
    /\ output_filename' = MainFilename(cli.gender, ANIMATIONS[a])
    /\ output_dir' = cli.output_dir
    /\ i' = 0
    /\ composite_image' = <<>>
    /\ result' = <<>>
    /\ pc' = "sprite_call"
    /\ UNCHANGED <<answerVars, files, diskVars, cli, generated_files, a, exit_code,
                   batchVars>>

\* bottom of the loop body: keep the path generate_sprite returned
MainCollect ==
    /\ pc = "sprite_ret"
    /\ generated_files' =
            IF result # <<>> THEN Append(generated_files, result) ELSE generated_files
    /\ a' = a + 1
    /\ pc' = "main_loop"
    /\ DropSpriteFrame
    /\ UNCHANGED <<answerVars, callVars, writes, cli, leg_type_used,
                   hair_style_used, exit_code, batchVars>>

\* a summary that wants every animation generated to return 0
MainSummary_AllNeeded ==
    /\ pc = "main_loop"
    /\ a > Len(ANIMATIONS)
    /\ exit_code' = IF Len(generated_files) = Len(ANIMATIONS) THEN 0 ELSE 1
    /\ pc' = "main_done"
    /\ UNCHANGED <<answerVars, callVars, frameVars, i, composite_image, result,
                   diskVars, mainVars, a, hair_style_used, batchVars>>

\* after the loop: the summary and the value returned
MainSummary ==
    /\ pc = "main_loop"
    /\ a > Len(ANIMATIONS)
    /\ exit_code' = IF generated_files # <<>> THEN 0 ELSE 1
    /\ pc' = "main_done"
    /\ UNCHANGED <<answerVars, callVars, frameVars, i, composite_image, result,
                   diskVars, mainVars, a, hair_style_used, batchVars>>

NextMain ==
    \/ MainResolve \/ SpriteEnter \/ LoadAll \/ ReturnNone \/ SavePng
    \/ SaveCredits \/ MainCollect \/ MainSummary

SpecMain == InitMain /\ [][NextMain]_vars

(***************************************************************************)
(* generate_1000_characters.py: generate_character and main, the batch     *)
(* driver.  MaxChars stands for the 1000 of the source.                    *)
(***************************************************************************)
SKIN_COLORS == <<"light", "light">>

HAIR_COLORS == <<"dark_brown">>

SHIRT_COLORS == <<"white">>

LEG_COLORS == <<"blue">>

SHOE_COLORS == <<"black">>

LEG_TYPES == <<"pants", "skirt", "leggings">>

DigitChars == <<"0", "1", "2", "3", "4", "5", "6", "7", "8", "9">>

RECURSIVE Digits(_)
\* str(n) for n >= 0
Digits(n) ==
    IF n < 10 THEN <<DigitChars[n + 1]>>
    ELSE Append(Digits(n \div 10), DigitChars[(n % 10) + 1])

RECURSIVE ZeroPad(_, _)
ZeroPad(digits, width) ==
    IF Len(digits) >= width THEN digits ELSE ZeroPad(<<"0">> \o digits, width)

\* f"{n:04d}"
Format04d(n) == ZeroPad(Digits(n), 4)

\* a driver that puts every character in one directory
CharDir_Shared(character_id) ==
    <<"char_x1000">> \o <<"/">> \o <<"character_">>

\* os.path.join(base_output_dir, f"character_{character_id:04d}")
CharDir(character_id) ==
    PathJoin(<<"char_x1000">>, <<"character_">> \o Format04d(character_id))

BatchFilename(animation) == <<animation, ".png">>

InitBatch ==
    /\ pc = "batch_loop"
    /\ cid = 1
    /\ success_count = 0
    /\ failed_chars = <<>>
    /\ calls = <<>>
    /\ attrs = NoAttrs
    /\ char_success = 0
    /\ a = 0
    /\ hair_style_used = None
    /\ exit_code = -1
    /\ NoCall /\ NoAnswer /\ NoFrame /\ EmptyDisk /\ NoMain

\* main calls generate_character(i), which draws the attributes and makes
\* the character's directory (os.makedirs may raise)
CharBegin ==
    /\ pc = "batch_loop"
    /\ cid <= MaxChars
    /\ calls' = Append(calls, cid)
    /\ \E gender \in Genders, skin \in Range(SKIN_COLORS), hair \in Range(HAIR_COLORS),
          shirt \in Range(SHIRT_COLORS), leg \in Range(LEG_COLORS),
          shoe \in Range(SHOE_COLORS), rnd_leg \in Range(LEG_TYPES) :
            attrs' = [ gender |-> gender, skin_color |-> skin, hair_color |-> hair,
                       shirt_color |-> shirt, leg_color |-> leg, shoe_color |-> shoe,
                       leg_type |-> IF gender = "female" THEN rnd_leg ELSE "pants" ]
    /\ hair_style_used' = None
    /\ char_success' = 0
    /\ a' = 1
    /\ \/ pc' = "char_loop"
       \/ pc' = "char_raised"
    /\ UNCHANGED <<answerVars, callVars, frameVars, i, composite_image, result,
                   diskVars, mainVars, exit_code, cid, success_count, failed_chars>>

\* the arguments generate_character passes to the resolver
CharCallArgs ==
    [ animation |-> ANIMATIONS[a], gender |-> attrs.gender,
      skin_color |-> attrs.skin_color, hair_color |-> attrs.hair_color,
      shirt_color |-> attrs.shirt_color, leg_color |-> attrs.leg_color,
      shoe_color |-> attrs.shoe_color, leg_type |-> attrs.leg_type,
      hair_style |-> hair_style_used ]

\* top of the loop body of generate_character
CharResolve ==
    /\ pc = "char_loop"
    /\ a <= Len(ANIMATIONS)
    /\ \E rnd_leg \in LegTypes :
        \E rnd_hair \in 1..Len(HairStylesOf(attrs.gender)) :
            LET r == get_layers_for_animation(CharCallArgs, rnd_leg, rnd_hair)
            IN  /\ args' = CharCallArgs
                /\ ret' = r
                /\ hair_style_used' =
                        IF hair_style_used = None THEN r.hair_style ELSE hair_style_used
                /\ layers' = r.layers
    /\ output_filename' = BatchFilename(ANIMATIONS[a])
    /\ output_dir' = CharDir(cid)
    /\ i' = 0
    /\ composite_image' = <<>>
    /\ result' = <<>>
    /\ pc' = "sprite_call"
    /\ UNCHANGED <<answerVars, files, diskVars, mainVars, a, exit_code, cid, attrs,
                   char_success, success_count, failed_chars, calls>>

\* bottom of the loop body of generate_character
CharCollect ==
    /\ pc = "sprite_ret"
    /\ char_success' = IF result # <<>> THEN char_success + 1 ELSE char_success
    /\ a' = a + 1
    /\ pc' = "char_loop"
    /\ DropSpriteFrame
    /\ UNCHANGED <<answerVars, callVars, writes, mainVars, hair_style_used,
                   exit_code, cid, attrs, success_count, failed_chars, calls>>

\* description.txt is written, which may raise
CharDescribe ==
    /\ pc = "char_loop"
    /\ a > Len(ANIMATIONS)
    /\ \/ /\ writes' = Append(writes, PathJoin(CharDir(cid), <<"description", ".txt">>))
          /\ pc' = "char_data"
       \/ /\ pc' = "char_raised"
          /\ UNCHANGED writes
    /\ UNCHANGED <<answerVars, callVars, frameVars, i, composite_image, result,
                   credits, saved, driverVars>>

\* character_data.json is written, which may raise, and generate_character
\* returns
CharData ==
    /\ pc = "char_data"
    /\ \/ /\ writes' = Append(writes, PathJoin(CharDir(cid), <<"character_data", ".json">>))
          /\ pc' = "char_ret"
       \/ /\ pc' = "char_raised"
          /\ UNCHANGED writes
    /\ UNCHANGED <<answerVars, callVars, frameVars, i, composite_image, result,
                   credits, saved, driverVars>>

\* a main that takes a character with any animation generated for a success
BatchCollect_AnyAnimation ==
    /\ pc = "char_ret"
    /\ IF char_success > 0
       THEN success_count' = success_count + 1 /\ UNCHANGED failed_chars
       ELSE failed_chars' = Append(failed_chars, cid) /\ UNCHANGED success_count
    /\ cid' = cid + 1
    /\ pc' = "batch_loop"
    /\ DropCharFrame
    /\ UNCHANGED <<answerVars, frameVars, i, composite_image, result, diskVars,
                   mainVars, exit_code, calls>>

\* main, after generate_character returned (success, description)
BatchCollect ==
    /\ pc = "char_ret"
    /\ IF char_success = Len(ANIMATIONS)
       THEN success_count' = success_count + 1 /\ UNCHANGED failed_chars
       ELSE failed_chars' = Append(failed_chars, cid) /\ UNCHANGED success_count
    /\ cid' = cid + 1
    /\ pc' = "batch_loop"
    /\ DropCharFrame
    /\ UNCHANGED <<answerVars, frameVars, i, composite_image, result, diskVars,
                   mainVars, exit_code, calls>>

\* main's except clause, for an exception raised anywhere under
\* generate_character
BatchExcept ==
    /\ pc \in {"char_raised", "sprite_raised"}
    /\ failed_chars' = Append(failed_chars, cid)
    /\ cid' = cid + 1
    /\ pc' = "batch_loop"
    /\ DropSpriteFrame
    /\ DropCharFrame
    /\ UNCHANGED <<answerVars, writes, mainVars, exit_code, success_count, calls>>

\* after the loop: the summary and the value returned
BatchSummary ==
    /\ pc = "batch_loop"
    /\ cid > MaxChars
    /\ exit_code' = IF success_count = MaxChars THEN 0 ELSE 1
    /\ pc' = "batch_done"
    /\ UNCHANGED <<answerVars, callVars, frameVars, i, composite_image, result,
                   diskVars, mainVars, a, hair_style_used, batchVars>>

NextBatch ==
    \/ CharBegin \/ CharResolve \/ SpriteEnter \/ LoadAll \/ ReturnNone \/ SavePng
    \/ SaveCredits \/ CharCollect \/ CharDescribe \/ CharData \/ BatchCollect
    \/ BatchExcept \/ BatchSummary

SpecBatch == InitBatch /\ [][NextBatch]_vars

(***************************************************************************)
(* generateResponses.py: promptCharacters, considerQuestion and writeOut.  *)
(* A text is the sequence of its characters; MaxPrompted stands for the    *)
(* num of the call at the end of the script.  An exception of query_gpt or *)
(* of a file operation is not caught: the run ends at "prompt_raised".     *)
(***************************************************************************)
Questions == { <<"g", "o", "?">>, <<"?">> }

IntroTexts == { <<"i", "n">>, <<"i">> }

PreTexts == { <<"p", "r", "e">> }

PostTexts == { <<"p", "o">>, <<>> }

\* what a description.txt holds
Descriptions == { <<"b", "o", "y">>, <<"g", "i", "r", "l">> }

\* what the language model answers
ModelReplies ==
    { <<>>, <<"h", "m">>, <<"y", "e", "s", ".">>, <<"N", "o", ".">> }

\* char_id = str(char_id), padded on the left with "0" to four characters
PadId(id) == ZeroPad(Digits(id), 4)

\* f"char_x1000/character_{char_id}"
PromptCharDir(id) == <<"char_x1000", "/", "character_">> \o PadId(id)

\* a second prompt without the reply to the first
Prompt2_FirstReplyLeftOut(desc, intro, response_1, pre, asked, post) ==
    desc \o intro \o pre \o asked \o post

\* the prompt of the first query
Prompt1(desc, intro) == desc \o intro

\* prompt_2
Prompt2(desc, intro, response_1, pre, asked, post) ==
    desc \o intro \o response_1 \o pre \o asked \o post

InitPrompt ==
    /\ pc = "prompt_loop"
    /\ question \in Questions
    /\ prompt_files \in [ introduction : IntroTexts, pre : PreTexts, post : PostTexts ]
    /\ char_id = 1
    /\ description = <<>>
    /\ sent = <<>>
    /\ count_yes = 0
    /\ count_no = 0
    /\ short_answer = None
    /\ reply = <<>>
    /\ answer = FALSE
    /\ NoCall /\ NoFrame /\ EmptyDisk /\ NoMain /\ NoBatch /\ NoLoop

\* considerQuestion, first half: the files are read and the model is asked
\* with the description and the introduction
AskFirst ==
    /\ pc = "prompt_loop"
    /\ char_id <= MaxPrompted
    /\ \/ \E desc \in Descriptions, response_1 \in ModelReplies :
            /\ description' = desc
            /\ sent' = << [ prompt |-> Prompt1(desc, prompt_files.introduction),
                            response |-> response_1 ] >>
            /\ pc' = "ask_second"
       \/ /\ pc' = "prompt_raised"
          /\ UNCHANGED <<description, sent>>
    /\ UNCHANGED <<reply, answer, question, prompt_files, char_id, count_yes,
                   count_no, short_answer, callVars, frameVars, i, composite_image,
                   result, diskVars, driverVars>>

\* considerQuestion, second half: the model is asked with prompt_2 and its
\* reply is returned
AskSecond ==
    /\ pc = "ask_second"
    /\ \/ \E response_2 \in ModelReplies :
            /\ sent' = Append(sent,
                    [ prompt |-> Prompt2(description, prompt_files.introduction,
                                         sent[1].response, prompt_files.pre,
                                         question, prompt_files.post),
                      response |-> response_2 ])
            /\ reply' = response_2
            /\ pc' = "considered"
       \/ /\ pc' = "prompt_raised"
          /\ UNCHANGED <<sent, reply>>
    /\ UNCHANGED <<answer, question, prompt_files, char_id, description, count_yes,
                   count_no, short_answer, callVars, frameVars, i, composite_image,
                   result, diskVars, driverVars>>

\* promptCharacters: the reply is classified and counted
CountAnswer ==
    /\ pc = "considered"
    /\ answer' = getAnswer(reply)
    /\ IF getAnswer(reply)
       THEN count_yes' = count_yes + 1 /\ UNCHANGED count_no
       ELSE count_no' = count_no + 1 /\ UNCHANGED count_yes
    /\ pc' = "write_out"
    /\ UNCHANGED <<reply, question, prompt_files, char_id, description, sent,
                   short_answer, callVars, frameVars, i, composite_image, result,
                   diskVars, driverVars>>

\* writeOut(answer, i), which may raise, and the end of the loop body
WriteOut ==
    /\ pc = "write_out"
    /\ \/ /\ short_answer' = IF getAnswer(reply) THEN "Yes" ELSE "No"
          /\ writes' = Append(writes,
                              PathJoin(PromptCharDir(char_id), <<"short-answer", ".txt">>))
          /\ char_id' = char_id + 1
          /\ description' = <<>>
          /\ sent' = <<>>
          /\ reply' = <<>>
          /\ pc' = "prompt_loop"
       \/ /\ pc' = "prompt_raised"
          /\ UNCHANGED <<short_answer, writes, char_id, description, sent, reply>>
    /\ UNCHANGED <<answer, question, prompt_files, count_yes, count_no, callVars,
                   frameVars, i, composite_image, result, credits, saved,
                   driverVars>>

\* after the loop: the two counts are printed
PromptSummary ==
    /\ pc = "prompt_loop"
    /\ char_id > MaxPrompted
    /\ pc' = "prompt_done"
    /\ UNCHANGED <<answerVars, callVars, frameVars, i, composite_image, result,
                   diskVars, driverVars>>

NextPrompt == AskFirst \/ AskSecond \/ CountAnswer \/ WriteOut \/ PromptSummary

SpecPrompt == InitPrompt /\ [][NextPrompt]_vars

(***************************************************************************)
(* Claims about generate_sprite, under SpecSprite.                         *)
(***************************************************************************)
\* the images of the layer files that load, in the order of the layers
LoadedImages ==
    LET ok == SelectSeq(files, LAMBDA f : f.status = "ok")
    IN  [k \in 1..Len(ok) |-> ok[k].img]

\* pixel k of a stack of images: that of the topmost image that is not
\* transparent there, transparent when there is none
TopPixel(imgs, k) ==
    LET opaque == {j \in 1..Len(imgs) : imgs[j][k] # 0}
    IN  IF opaque = {} THEN 0
        ELSE imgs[CHOOSE j \in opaque : \A m \in opaque : m <= j][k]

Stacked(imgs) == [k \in 1..Len(imgs[1]) |-> TopPixel(imgs, k)]

OneMissing == Cardinality({k \in 1..Len(files) : files[k].status # "ok"}) = 1

NoneLoads == \A k \in 1..Len(files) : files[k].status # "ok"

\* C3 as stated: when exactly one of the N layer files is absent or does not
\* load, for every N, generate_sprite does not return None and the image it
\* saves is the other N-1 layers composited in their order.
C3_OneMissingAnyN ==
    (OneMissing /\ pc = "sprite_ret") =>
        /\ result # <<>>
        /\ saved = Stacked(LoadedImages)

\* C3, amended: when exactly one of N >= 2 layer files is absent or does not
\* load, the composite after the loop is the other N-1 layers composited in
\* their order on the first one that loaded, it is the image saved, and
\* generate_sprite does not return None.
C3_OneMissingOfTwoOrMore ==
    (OneMissing /\ Len(layers) >= 2) =>
        /\ (pc = "load" /\ i = Len(layers)) => composite_image = Stacked(LoadedImages)
        /\ pc = "credits" => saved = Stacked(LoadedImages)
        /\ pc = "sprite_ret" => (result # <<>> /\ saved = Stacked(LoadedImages))

C3_Witness ==
    /\ OneMissing
    /\ Len(layers) = 3
    /\ files[1].status = "absent"
    /\ files[2].img = <<1>> /\ files[3].img = <<2>>
    /\ pc = "sprite_ret"
    /\ saved = <<2>>

\* C4: when no layer loads (files absent, files that do not decode, or an
\* empty list) nothing is written and a call that returns returns None; and
\* a call that returns a path loaded at least one layer and wrote the PNG to
\* that path.
C4_TotalFailure ==
    /\ NoneLoads => (writes = <<>> /\ (pc = "sprite_ret" => result = <<>>))
    /\ (pc = "sprite_ret" /\ result # <<>>) =>
            /\ ~NoneLoads
            /\ result = output_dir \o <<"/">> \o output_filename
            /\ writes[1] = result

C4_Witness ==
    /\ pc = "sprite_ret"
    /\ result = <<>>
    /\ Len(layers) = 2
    /\ files[1].status = "absent"
    /\ files[2].status = "corrupt"
    /\ writes = <<>>

(***************************************************************************)
(* Claims about the sprite tool, under SpecMain.                           *)
(***************************************************************************)
Written(path) == \E k \in 1..Len(writes) : writes[k] = path

TimesWritten(path) == Cardinality({k \in 1..Len(writes) : writes[k] = path})

\* the PNG of the sprite tool for an animation
MainPng(animation) ==
    <<"generated_sprites", "/", "character_", cli.gender, "_", animation, ".png">>

\* C8: main returns 0 exactly when at least one animation of ANIMATIONS was
\* composited (its PNG was written), and 1 when none was; animations that
\* failed beside one that succeeded do not change the 0.
C8_ExitCode ==
    pc = "main_done" =>
        /\ exit_code \in {0, 1}
        /\ exit_code = 0 <=> \E k \in 1..Len(ANIMATIONS) : Written(MainPng(ANIMATIONS[k]))
        /\ exit_code = 1 <=> writes = <<>>

C8_Witness ==
    /\ pc = "main_done"
    /\ exit_code = 0
    /\ Written(MainPng("walk"))
    /\ ~Written(MainPng("idle"))
    /\ ~Written(MainPng("sit"))

IsManifest(path) == path[Len(path)] = "_info.json"

IsPng(path) == path[Len(path)] = ".png"

\* the PNG a manifest path goes with
PngOf(path) == SubSeq(path, 1, Len(path) - 1) \o <<".png">>

CharFiles(c) ==
    LET dir == <<"char_x1000", "/", "character_", "0", "0", "0", DigitChars[c + 1], "/">>
    IN  { dir \o <<ANIMATIONS[k], ".png">> : k \in 1..Len(ANIMATIONS) }
            \cup { dir \o <<ANIMATIONS[k], "_info.json">> : k \in 1..Len(ANIMATIONS) }
            \cup { dir \o <<"description", ".txt">>, dir \o <<"character_data", ".json">> }

\* every animation of character c was composited and nothing raised
FullSuccess(c) == \A path \in CharFiles(c) : Written(path)

\* the characters main is done with
Done == 1..(cid - 1)

\* C9: a character is a full success exactly when every animation was
\* composited and nothing raised, and is recorded as failed otherwise, an
\* exception included; each id is handed to generate_character once, in
\* order, without a retry; and at the end the successes and the failed ids
\* add up to the number of characters.
C9_BatchAccounting ==
    /\ pc \in {"batch_loop", "batch_done"} =>
            /\ \A c \in Done : (\E k \in 1..Len(failed_chars) : failed_chars[k] = c) <=> ~FullSuccess(c)
            /\ success_count = Cardinality({c \in Done : FullSuccess(c)})
            /\ success_count + Len(failed_chars) = cid - 1
            /\ calls = [k \in 1..(cid - 1) |-> k]
    /\ \A k \in 1..Len(calls) : calls[k] = k
    /\ \A j, k \in 1..Len(failed_chars) : j < k => failed_chars[j] < failed_chars[k]
    /\ pc = "batch_done" =>
            /\ cid = MaxChars + 1
            /\ success_count + Len(failed_chars) = MaxChars

C9_Witness ==
    /\ pc = "batch_done"
    /\ failed_chars = <<1>>
    /\ success_count = 1
    /\ Len(writes) = 9
    /\ writes[1] = <<"char_x1000", "/", "character_", "0", "0", "0", "1", "/", "idle", ".png">>
    /\ writes[2] = <<"char_x1000", "/", "character_", "0", "0", "0", "2", "/", "idle", ".png">>

(***************************************************************************)
(* Claims about get_layers_for_animation, under SpecResolve.               *)
(***************************************************************************)
Resolved == pc = "resolved"

\* the legwear entry of a resolved list: the entry before the shoes of a list
\* of eight, none in a list of seven
LegLayer(lys) == IF Len(lys) = 8 THEN lys[7] ELSE <<>>

Prefix(path, n) == SubSeq(path, 1, n)

\* C1: the resolved list is body, head, nose, eyes, hair, shirt, then the
\* legwear when one was resolved, then the shoes: the first six entries are
\* those six layers in that order, the shoes are the last entry, and a legwear
\* entry, when there is one, is the entry right before the shoes.
C1_LayerOrder ==
    Resolved =>
        LET lys == ret.layers
            n == Len(lys)
        IN  /\ n \in {7, 8}
            /\ Prefix(lys[1], 2) = <<"body", "bodies">>
            /\ Prefix(lys[2], 2) = <<"head", "heads">>
            /\ Prefix(lys[3], 2) = <<"head", "nose">>
            /\ Prefix(lys[4], 1) = <<"eyes">>
            /\ Prefix(lys[5], 1) = <<"hair">>
            /\ Prefix(lys[6], 1) = <<"torso">>
            /\ Prefix(lys[n], 2) = <<"feet", "shoes">>
            /\ n = 8 => Prefix(lys[7], 1) = <<"legs">>
            /\ \A k \in 1..n : Prefix(lys[k], 1) = <<"legs">> => (n = 8 /\ k = 7)

C1_Witness ==
    /\ Resolved
    /\ Len(ret.layers) = 8
    /\ ret.leg_type = "skirt"
    /\ args.animation = "idle"

\* the rule table of the legwear path for a leg type lt
LegRule(lt, gender, animation, color) ==
    CASE lt = "skirt" /\ animation \in {"walk", "shoot", "slash", "spellcast", "thrust", "hurt"}
            -> <<"legs", "skirts", "plain", gender, animation, color, ".png">>
      [] lt = "skirt" /\ animation \in {"idle", "sit"}
            -> <<"legs", "leggings", "thin", animation, color, ".png">>
      [] lt = "skirt" /\ animation \notin {"walk", "shoot", "slash", "spellcast", "thrust", "hurt", "idle", "sit"}
            -> <<>>
      [] lt = "leggings" /\ gender = "female"
            -> <<"legs", "leggings", "thin", animation, color, ".png">>
      [] lt = "pants" /\ gender = "female"
           /\ animation \in {"walk", "shoot", "slash", "spellcast", "thrust", "hurt"}
            -> <<"legs", "pants", "female", animation, color, ".png">>
      [] lt = "pants" /\ gender = "female"
           /\ animation \notin {"walk", "shoot", "slash", "spellcast", "thrust", "hurt"}
            -> <<"legs", "pants", "thin", animation, color, ".png">>
      [] lt = "pants" /\ gender = "male"
            -> <<"legs", "pants", "male", animation, color, ".png">>
      [] OTHER -> <<"no rule">>

\* C2 as stated: for every explicit leg_type argument, whatever the gender,
\* the legwear path follows the rule table read on that argument (a skirt
\* gives a skirt path or the leggings fallback or no layer, ...).
C2_TableOnArgument ==
    (Resolved /\ args.leg_type # None) =>
        LET rule == LegRule(args.leg_type, args.gender, args.animation, args.leg_color)
        IN  rule # <<"no rule">> =>
                /\ LegLayer(ret.layers) = rule
                /\ rule = <<>> => Len(ret.layers) = 7

\* C2, amended: the legwear path follows the rule table read on the leg type
\* in use, which is the explicit argument for a female and pants for a male
\* whatever the argument; a path that does not resolve leaves a list of seven.
C2_TableOnLegTypeUsed ==
    (Resolved /\ args.leg_type # None) =>
        LET used == IF args.gender = "male" THEN "pants" ELSE args.leg_type
            rule == LegRule(used, args.gender, args.animation, args.leg_color)
        IN  /\ rule # <<"no rule">>
            /\ LegLayer(ret.layers) = rule
            /\ rule = <<>> <=> Len(ret.layers) = 7

C2_Witness ==
    /\ Resolved
    /\ args.leg_type = "skirt"
    /\ args.gender = "female"
    /\ args.animation = "run"
    /\ Len(ret.layers) = 7

\* the arguments of the end-to-end scenario
Scenario ==
    /\ args.gender = "male" /\ args.skin_color = "light"
    /\ args.hair_color = "dark_brown" /\ args.hair_style = "natural"
    /\ args.shirt_color = "white" /\ args.leg_color = "blue"
    /\ args.shoe_color = "black" /\ args.animation = "walk"

ScenarioLayers ==
    << <<"body", "bodies", "male", "walk", "light", ".png">>,
       <<"head", "heads", "human", "male", "walk", "light", ".png">>,
       <<"head", "nose", "big", "adult", "walk", "light", ".png">>,
       <<"eyes", "human", "adult", "default", "walk", "brown", ".png">>,
       <<"hair", "natural", "adult", "walk", "dark_brown", ".png">>,
       <<"torso", "clothes", "longsleeve", "longsleeve", "male", "walk", "white", ".png">>,
       <<"legs", "pants", "male", "walk", "blue", ".png">>,
       <<"feet", "shoes", "basic", "male", "walk", "black", ".png">> >>

\* C5 as stated: in the scenario the resolver returns exactly 7 paths, which
\* are body, head, nose, eyes, hair, shirt, pants and shoes in that order.
C5_SevenPaths ==
    (Resolved /\ Scenario) =>
        /\ Len(ret.layers) = 7
        /\ \A k \in 1..Len(ret.layers) : ret.layers[k] = ScenarioLayers[k]

\* C5, amended: in the scenario the resolver returns exactly 8 paths: body,
\* head, nose, eyes, hair, shirt, pants (male/walk), shoes (basic/male/walk).
C5_EightPaths == (Resolved /\ Scenario) => ret.layers = ScenarioLayers

C5_Witness == Resolved /\ Scenario /\ Len(ret.layers) = 8

\* C6: a male always gets leg type pants and a pants path, whatever leg_type
\* was passed; a female gets her explicit leg_type back unchanged, and one of
\* pants, skirt, leggings when none was passed.
C6_LegTypeChoice ==
    Resolved =>
        /\ args.gender = "male" =>
                /\ ret.leg_type = "pants"
                /\ Prefix(LegLayer(ret.layers), 2) = <<"legs", "pants">>
        /\ (args.gender = "female" /\ args.leg_type # None) =>
                ret.leg_type = args.leg_type
        /\ (args.gender = "female" /\ args.leg_type = None) =>
                ret.leg_type \in {"pants", "skirt", "leggings"}

C6_Witness ==
    /\ Resolved
    /\ args.gender = "male"
    /\ args.leg_type = "skirt"
    /\ ret.leg_type = "pants"

(***************************************************************************)
(* Claim about getAnswer, under SpecAnswer.                                *)
(***************************************************************************)
\* the last n characters of a text
LastChars(s, n) == SubSeq(s, Max(Len(s) - n, 0) + 1, Len(s))

\* C7: a reply is affirmative exactly when "yes" or "Yes" occurs within its
\* last 29 characters: an occurrence that needs the 30th-from-last character
\* does not count, one that ends at the last character does.
C7_Last29 ==
    pc = "classified" =>
        (answer <=> \/ Contains(LastChars(reply, 29), <<"y", "e", "s">>)
                    \/ Contains(LastChars(reply, 29), <<"Y", "e", "s">>))

(***************************************************************************)
(* Claim about considerQuestion, under SpecPrompt.                         *)
(***************************************************************************)
\* considerQuestion has returned the reply that is about to be classified
Considered == pc = "considered"

\* C11 as stated: considerQuestion sends the model a single prompt, which is
\* the description, the introduction, the pre-question fragment, the question
\* and the post-question fragment one after the other with nothing between
\* them, and the reply classified is the reply to that prompt.
C11_SinglePrompt ==
    Considered =>
        /\ Len(sent) = 1
        /\ sent[1].prompt = description \o prompt_files.introduction
                                \o prompt_files.pre \o question \o prompt_files.post
        /\ reply = sent[1].response

\* C11, amended: considerQuestion sends the model two prompts.  The first is
\* the description followed by the introduction.  The second is the
\* description, the introduction, the model's reply to the first prompt, the
\* pre-question fragment, the question and the post-question fragment, in
\* this order with nothing else between them, and the reply classified is
\* the reply to the second prompt.
C11_TwoPrompts ==
    Considered =>
        /\ Len(sent) = 2
        /\ sent[1].prompt = description \o prompt_files.introduction
        /\ sent[2].prompt = description \o prompt_files.introduction
                                \o sent[1].response \o prompt_files.pre
                                \o question \o prompt_files.post
        /\ reply = sent[2].response

C11_Witness ==
    /\ Considered
    /\ char_id = 2
    /\ sent[1].response = <<"h", "m">>
    /\ reply = <<"y", "e", "s", ".">>
    /\ question = <<"g", "o", "?">>

(***************************************************************************)
(* Claim about the loop over ANIMATIONS of the sprite tool, under          *)
(* SpecMain.                                                               *)
(***************************************************************************)
\* C12: in one run of the driver loop the character's attributes are drawn
\* once: every animation is resolved with the leg type and the hair style of
\* the first animation, also when the leg type of a female was left
\* unspecified and drawn at random.
C12_AttributesDrawnOnce ==
    pc = "sprite_call" =>
        /\ ret.leg_type = leg_type_used
        /\ ret.hair_style = hair_style_used

(***************************************************************************)
(* Claim about the files of a batch run, under SpecBatch.                  *)
(***************************************************************************)
\* C13: every step of a batch run leaves the files already written as they
\* are and writes at most one more; a file written is one of the files of
\* the character being processed (a PNG or a manifest of one of its
\* animations, its description or its attributes, all in its own
\* directory) and was not written before; and between two characters
\* nothing of the character just processed is left but the success count,
\* the failed ids and the files.
C13_DisjointOutputs ==
    [][ /\ Len(writes') \in {Len(writes), Len(writes) + 1}
        /\ SubSeq(writes', 1, Len(writes)) = writes
        /\ Len(writes') = Len(writes) + 1 =>
                /\ writes'[Len(writes')] \in CharFiles(cid)
                /\ ~Written(writes'[Len(writes')])
                /\ cid' = cid
        /\ pc' = "batch_loop" =>
                /\ attrs' = NoAttrs /\ char_success' = 0
                /\ hair_style_used' = None /\ args' = NoArgs /\ ret' = NoRet
                /\ layers' = <<>> /\ composite_image' = <<>> /\ result' = <<>>
      ]_vars

C13_Witness ==
    /\ pc = "batch_done"
    /\ Len(writes) = 16
    /\ FullSuccess(1)
    /\ FullSuccess(2)
    /\ success_count = 2

====
